---- MODULE Spec2Model ----
(***************************************************************************)
(* Model of the collection-call analytics application (src/app):           *)
(*   - the classification schema (models/classification.py) and the        *)
(*     confidence estimator (analyzers/classification.py),                 *)
(*   - the QA schema (models/scoring.py), the QA scoring analyzer and its  *)
(*     section scorer (analyzers/scoring.py),                              *)
(*   - the two places that report a verdict (ui/scoring.py,                *)
(*     ui/dashboard.py) and the configured threshold (utils/config.py).    *)
(*   - the SQLite store of analyses (utils/db_handler.py): save_analysis   *)
(*     step by step inside its transaction, and the read operations.       *)
(*                                                                         *)
(* Conventions.                                                            *)
(*   Optional[T] is a sequence of length <= 1: None is << >>, a present    *)
(*   value x is <<x>>.  Python floats are modelled as exact rationals      *)
(*   [n, d] in lowest terms (the rounding error of the few operations      *)
(*   involved is far below the 1e-6 tolerance the properties use).         *)
(*   The Structured Extraction Service is a nondeterministic choice over   *)
(*   the instances the schema accepts.                                     *)
(***************************************************************************)
EXTENDS Integers, Sequences, FiniteSets, TLC

VARIABLES
    call_data,        \* CallData produced by the last construction (None if none)
    metrics,          \* dict returned by the last get_confidence_metrics call
    min_qa_score,     \* config.default_config["min_qa_score"]
    extracted,        \* QAScore returned by structured_llm.invoke
    qa_score,         \* value returned by QAScoringAnalyzer.analyze_transcript
    raised,           \* exception raised by the last operation (None if it returned)
    section_scores,   \* value returned by calculate_section_scores
    display,          \* what the page shows for the current qa_score
    analyses,         \* committed rows of table analyses, in insertion order
    critical_issues,  \* committed rows of table critical_issues
    sqlite_sequence,  \* largest AUTOINCREMENT id committed, per table
    writer,           \* the connection that holds the database's write lock
    conn,             \* per client: its open save transaction and last result
    saved,            \* the save calls that returned, with the id each returned
    session,          \* per browser session: st.session_state and the run in progress
    latest_analysis_file  \* data/analysis/analysis_latest_analysis.json

vars == <<call_data, metrics, min_qa_score, extracted, qa_score, raised, section_scores,
          display, analyses, critical_issues, sqlite_sequence, writer, conn, saved,
          session, latest_analysis_file>>

runVars == <<session, latest_analysis_file>>

dbVars == <<analyses, critical_issues, sqlite_sequence, writer, conn, saved>>

clsVars == <<call_data, metrics>>
qaVars == <<min_qa_score, extracted, qa_score, section_scores, display>>

----------------------------------------------------------------------------
(* Python values                                                           *)

None == << >>
Some(x) == <<x>>
Val(o) == o[1]

\* bool(o) of an Optional[str]: None and "" are falsy
TruthyOptStr(o) == o # None /\ Val(o) # ""

\* bool(o) of an Optional[BaseModel]: an instance is always truthy
TruthyOptModel(o) == o # None

RECURSIVE GCD(_, _)
GCD(a, b) == IF b = 0 THEN a ELSE GCD(b, a % b)

Abs(x) == IF x < 0 THEN -x ELSE x

\* the rational n/d (d > 0) in lowest terms
R(n, d) == LET g == GCD(Abs(n), d) IN [n |-> n \div g, d |-> d \div g]

RAdd(a, b) == R(a.n * b.d + b.n * a.d, a.d * b.d)
RSub(a, b) == R(a.n * b.d - b.n * a.d, a.d * b.d)
RMul(a, b) == R(a.n * b.n, a.d * b.d)
RDiv(a, b) == R(a.n * b.d, a.d * b.n)
RGe(a, b) == a.n * b.d >= b.n * a.d
RLe(a, b) == RGe(b, a)
RMin(a, b) == IF RLe(a, b) THEN a ELSE b

Zero == R(0, 1)
One == R(1, 1)

----------------------------------------------------------------------------
(* utils/db_handler.py: the database file after DatabaseHandler() created  *)
(* its two tables, and the clients that will use it                        *)

\* a client that is in no call and has made none
IdleConn == [pc |-> "idle", input |-> None, tx |-> None, k |-> 0, result |-> [op |-> "none"]]

InitDb(clients) ==
    /\ analyses = << >>
    /\ critical_issues = << >>
    /\ sqlite_sequence = [analyses |-> 0, critical_issues |-> 0]
    /\ writer = None
    /\ conn = [c \in clients |-> IdleConn]
    /\ saved = << >>

----------------------------------------------------------------------------
(* main.py: the session state init_session_state() sets up, and the        *)
(* latest-analysis file, which does not exist at the start                 *)

\* pc is the place of the session's script in an analysis run, run the
\* number of runs it has started; invocations, service_error and caught
\* belong to the run in progress or last finished
NewSession ==
    [pc |-> "idle",
     run |-> 0,
     classification_results |-> None,
     qa_score |-> None,
     current_analysis_id |-> None,
     invocations |-> << >>,
     service_error |-> None,
     caught |-> None,
     download |-> None]

InitSessionState(sessions) ==
    /\ session = [s \in sessions |-> NewSession]
    /\ latest_analysis_file = None

----------------------------------------------------------------------------
(* models/base.py                                                          *)

ScenarioType == {"PTP", "REFUSE_TO_PAY", "TPC", "UNKNOWN"}

ComplianceStatus == {"COMPLIANT", "NON_COMPLIANT", "NOT_APPLICABLE"}

\* the values of the str-enum ScoreLevel
ScoreLevel == {"0", "0.5", "1"}

\* float(level.value)
Float(s) == CASE s = "0" -> R(0, 1)
              [] s = "0.5" -> R(1, 2)
              [] s = "1" -> R(1, 1)

\* an Amount (value, currenct, type); one sample instance is enough here
SampleAmount == [value |-> 500, currenct |-> "IDR", type |-> "installment"]

\* the lists of at most n copies of x (lists may hold duplicates)
ListsUpTo(x, n) == {[i \in 1..k |-> x] : k \in 0..n}

\* longest amounts_mentioned list and longest other_violations list drawn
MaxAmounts == 1
MaxOtherViolations == 1

----------------------------------------------------------------------------
(* models/classification.py                                                *)

\* sample values of an Optional[str] field: None, "" and a non-empty string
OptStr == {None, Some(""), Some("s")}

\* sample values of an Optional[str] field without the empty string
OptStrSet == {None, Some("s")}

\* what the extraction may hand to the CallData constructor for scenario_type:
\* the four enum values and one string outside the enumeration
RawScenario == ScenarioType \cup {"PROMISE"}

BasicCallInfoInputs ==
    [agent_name : OptStr,
     customer_name : OptStr,
     scenario_type : RawScenario,
     classification_reason : {"", "customer gave a date"},
     call_duration : OptStrSet,
     amounts_mentioned : ListsUpTo(SampleAmount, MaxAmounts),
     payment_date_mentioned : OptStrSet]

PTPDetailsSet ==
    [promised_date : OptStr,
     promised_amount : {None, Some(SampleAmount)},
     negotiation_attempts : {None},
     commitment_strength : {"medium"},
     commitment_phrases : {<< >>}]

RefuseDetailsSet ==
    [reason : OptStr,
     customer_situation : {None},
     refusal_type : {"implicit"},
     solutions_discussed : {<< >>}]

TPCDetailsSet ==
    [relationship_to_customer : OptStr,
     message_delivered : {None},
     verification_attempt : {FALSE},
     alternative_contacts : {<< >>}]

Opt(S) == {None} \cup {Some(x) : x \in S}

\* the keyword arguments the CallData constructor can be given
CallDataInputs ==
    [basic_info : BasicCallInfoInputs,
     ptp_details : Opt(PTPDetailsSet),
     refuse_details : Opt(RefuseDetailsSet),
     tpc_details : Opt(TPCDetailsSet),
     call_summary : {None}]

\* Field validation of the pydantic models: every field is checked against
\* its declared type; CallData declares no validator relating the three
\* detail fields to basic_info.scenario_type or to each other.
CallDataValid(raw) == raw.basic_info.scenario_type \in ScenarioType

\* CallData(**raw): the instance, or pydantic's ValidationError.  One
\* classification is followed here from its construction on.
ConstructCallData ==
    /\ call_data = None /\ raised = None
    /\ \E raw \in CallDataInputs :
         IF CallDataValid(raw)
           THEN /\ call_data' = Some(raw)
                /\ raised' = None
           ELSE /\ call_data' = None
                /\ raised' = Some("ValidationError")
    /\ metrics' = None
    /\ UNCHANGED <<qaVars, dbVars, runVars>>

----------------------------------------------------------------------------
(* analyzers/classification.py: get_confidence_metrics                     *)

\* the values of result.basic_info.dict(), tagged with their Python type
PyNone == [t |-> "none", s |-> "", len |-> 0]
PyStr(s) == [t |-> "str", s |-> s, len |-> 0]
PyList(l) == [t |-> "list", s |-> "", len |-> Len(l)]
PyOptStr(o) == IF o = None THEN PyNone ELSE PyStr(Val(o))

\* basic_info.dict().items(), in field declaration order
BasicInfoItems(b) ==
    << PyOptStr(b.agent_name),
       PyOptStr(b.customer_name),
       PyStr(b.scenario_type),
       PyStr(b.classification_reason),
       PyOptStr(b.call_duration),
       PyList(b.amounts_mentioned),
       PyOptStr(b.payment_date_mentioned) >>

\* value is not None and value != "" and value != []
IsCompleteCountsEmptyStr(v) == v.t # "none" /\ ~(v.t = "list" /\ v.len = 0)
IsComplete(v) ==
    /\ v.t # "none"
    /\ ~(v.t = "str" /\ v.s = "")
    /\ ~(v.t = "list" /\ v.len = 0)

\* the loop over the items: <<complete_fields, total_fields>>
RECURSIVE CountFields(_, _, _, _)
CountFields(items, i, complete_fields, total_fields) ==
    IF i > Len(items)
      THEN <<complete_fields, total_fields>>
      ELSE CountFields(items, i + 1,
                       IF IsComplete(items[i]) THEN complete_fields + 1
                                               ELSE complete_fields,
                       total_fields + 1)

ClassificationConfidenceByScenario(result) ==
    IF result.basic_info.classification_reason # ""
       \/ result.basic_info.scenario_type # "UNKNOWN"
      THEN R(8, 10) ELSE Zero
ClassificationConfidence(result) ==
    IF result.basic_info.classification_reason # "" THEN R(8, 10) ELSE Zero

EvidenceStrengthAnyVariant(result) ==
    IF TruthyOptModel(result.ptp_details)
      THEN IF /\ TruthyOptStr(Val(result.ptp_details).promised_date)
              /\ TruthyOptModel(Val(result.ptp_details).promised_amount)
             THEN R(9, 10) ELSE Zero
    ELSE IF TruthyOptModel(result.tpc_details)
      THEN IF TruthyOptStr(Val(result.tpc_details).relationship_to_customer)
             THEN R(8, 10) ELSE Zero
    ELSE IF TruthyOptModel(result.refuse_details)
      THEN IF TruthyOptStr(Val(result.refuse_details).reason)
             THEN R(8, 10) ELSE Zero
    ELSE Zero
EvidenceStrength(result) ==
    IF result.basic_info.scenario_type = "PTP" /\ TruthyOptModel(result.ptp_details)
      THEN IF /\ TruthyOptStr(Val(result.ptp_details).promised_date)
              /\ TruthyOptModel(Val(result.ptp_details).promised_amount)
             THEN R(9, 10) ELSE Zero
    ELSE IF result.basic_info.scenario_type = "TPC" /\ TruthyOptModel(result.tpc_details)
      THEN IF TruthyOptStr(Val(result.tpc_details).relationship_to_customer)
             THEN R(8, 10) ELSE Zero
    ELSE IF /\ result.basic_info.scenario_type = "REFUSE_TO_PAY"
            /\ TruthyOptModel(result.refuse_details)
      THEN IF TruthyOptStr(Val(result.refuse_details).reason)
             THEN R(8, 10) ELSE Zero
    ELSE Zero

\* the variant that reads ptp_details without testing it for None first
GetConfidenceMetricsUncheckedVariant ==
    /\ call_data # None
    /\ LET result == Val(call_data)
           counts == CountFields(BasicInfoItems(result.basic_info), 1, 0, 0)
       IN IF result.basic_info.scenario_type = "PTP" /\ result.ptp_details = None
            THEN /\ metrics' = None
                 /\ raised' = Some("AttributeError")
            ELSE /\ metrics' = Some([classification_confidence |-> ClassificationConfidence(result),
                                     information_completeness |-> R(counts[1], counts[2]),
                                     evidence_strength |-> EvidenceStrength(result)])
                 /\ raised' = None
    /\ UNCHANGED <<call_data, qaVars, dbVars, runVars>>
\* get_confidence_metrics(result): reads result, assigns to no field of it
GetConfidenceMetrics ==
    /\ call_data # None
    /\ LET result == Val(call_data)
           counts == CountFields(BasicInfoItems(result.basic_info), 1, 0, 0)
       IN IF counts[2] = 0
            THEN /\ metrics' = None
                 /\ raised' = Some("ZeroDivisionError")
            ELSE /\ metrics' = Some([classification_confidence |-> ClassificationConfidence(result),
                                     information_completeness |-> R(counts[1], counts[2]),
                                     evidence_strength |-> EvidenceStrength(result)])
                 /\ raised' = None
    /\ UNCHANGED <<call_data, qaVars, dbVars, runVars>>

InitCls ==
    /\ call_data = None
    /\ metrics = None
    /\ raised = None
    /\ min_qa_score = R(85, 100)
    /\ extracted = None
    /\ qa_score = None
    /\ section_scores = None
    /\ display = None
    /\ InitDb({})
    /\ InitSessionState({})

NextCls ==
    \/ ConstructCallData
    \/ GetConfidenceMetrics

SpecCls == InitCls /\ [][NextCls]_vars

----------------------------------------------------------------------------
(* models/scoring.py                                                       *)
(* The free-text evidence fields, improvement_areas and evidence_highlights *)
(* are read by no code modelled here and are left out of the records.      *)

\* a Dict[str, float] is a sequence of <<key, value>> pairs; {} is << >>
EmptyDict == << >>

RECURSIVE SumValues(_)
SumValues(d) == IF d = << >> THEN Zero ELSE RAdd(Head(d)[2], SumValues(Tail(d)))

\* the default of QAScore.score_breakdown, and the patch of analyze_transcript
ZeroBreakdown ==
    << <<"opening", Zero>>, <<"communication", Zero>>, <<"negotiation", Zero>> >>

OpeningScoreSet ==
    [greeting_score : ScoreLevel, customer_name_verification : ComplianceStatus]

\* the three axes are sampled together in this specification
CommunicationScoreSet ==
    {[voice_tone_score |-> l, speaking_pace_score |-> l, language_etiquette_score |-> l] :
        l \in ScoreLevel}

\* the default NegotiationScore and the one of the PTP example
NegotiationScoreSet ==
    {[negotiation_attempts |-> 0, solutions_offered |-> << >>,
      payment_commitment_obtained |-> FALSE],
     [negotiation_attempts |-> 3, solutions_offered |-> <<"reschedule", "partial payment">>,
      payment_commitment_obtained |-> TRUE]}

\* no violation, and each of the three kinds of violation alone
KnockoutViolationSet ==
    {[unauthorized_disclosure |-> FALSE, ptp_cheating |-> FALSE, other_violations |-> << >>],
     [unauthorized_disclosure |-> TRUE, ptp_cheating |-> FALSE, other_violations |-> << >>],
     [unauthorized_disclosure |-> FALSE, ptp_cheating |-> TRUE, other_violations |-> << >>]}
    \cup
    {[unauthorized_disclosure |-> FALSE, ptp_cheating |-> FALSE, other_violations |-> v] :
        v \in ListsUpTo("threatened the customer", MaxOtherViolations)}

\* total_score is an unconstrained float of the schema; the samples are 0,
\* 0.4516.., 0.5967.., 0.8 and 0.9
TotalScoreSet == {Zero, R(14, 31), R(37, 62), R(8, 10), R(9, 10)}

\* score_breakdown samples: {}, all zero, and contributions that sum to 37/62
ScoreBreakdownSet ==
    {EmptyDict,
     ZeroBreakdown,
     << <<"opening", R(6, 31)>>, <<"communication", R(25, 62)>>, <<"negotiation", Zero>> >>}

\* the QAScore instances the structured extraction can return
QAScoreSet ==
    [scenario_type : ScenarioType,
     opening_score : OpeningScoreSet,
     communication_score : CommunicationScoreSet,
     negotiation_score : Opt(NegotiationScoreSet),
     knockout_violations : KnockoutViolationSet,
     total_score : TotalScoreSet,
     score_breakdown : ScoreBreakdownSet]

----------------------------------------------------------------------------
(* utils/config.py                                                         *)

\* min_qa_score: the default 0.85, or the float of the MIN_QA_SCORE variable
MinQAScoreSet == {R(85, 100), R(7, 10)}

----------------------------------------------------------------------------
(* analyzers/scoring.py                                                    *)

\* the patch that also resets total_score
ValidateScoreBreakdownZeroTotal(result) ==
    IF result.score_breakdown = EmptyDict
      THEN [result EXCEPT !.score_breakdown = ZeroBreakdown, !.total_score = Zero]
      ELSE result
\* if not result.score_breakdown: result.score_breakdown = {...zeros...}
ValidateScoreBreakdown(result) ==
    IF result.score_breakdown = EmptyDict
      THEN [result EXCEPT !.score_breakdown = ZeroBreakdown]
      ELSE result

\* QAScoringAnalyzer.analyze_transcript(transcript, scenario_type): the
\* scenario only selects the prompt text; the extraction either raises, and
\* the error is re-raised wrapped, or returns an instance that is returned
\* after the score_breakdown patch.  One scoring is followed here.
AnalyzeTranscript ==
    /\ qa_score = None /\ raised = None
    /\ \E scenario_type \in ScenarioType :
         \/ /\ raised' = Some("Error during QA scoring")
            /\ UNCHANGED <<extracted, qa_score>>
         \/ \E result \in QAScoreSet :
              /\ extracted' = Some(result)
              /\ qa_score' = Some(ValidateScoreBreakdown(result))
              /\ raised' = None
    /\ UNCHANGED <<clsVars, min_qa_score, section_scores, display, dbVars, runVars>>

\* negotiation is scored only with a NegotiationScore and scenario PTP or
\* REFUSE_TO_PAY
NegotiationApplicable(score) ==
    /\ TruthyOptModel(score.negotiation_score)
    /\ score.scenario_type \in {"PTP", "REFUSE_TO_PAY"}

\* count * 0.2 without the cap
CappedNot(count) == RMul(R(count, 1), R(2, 10))
\* min(count * 0.2, 1.0)
Capped(count) == RMin(RMul(R(count, 1), R(2, 10)), One)

\* one entry of the returned dict: raw_score, weighted_score, components
Section(raw, weight, components) ==
    [raw_score |-> raw, weighted_score |-> RMul(raw, weight), components |-> components]

\* the entry each section starts with: 0.0, 0.0 and no components
InitialSection == [raw_score |-> Zero, weighted_score |-> Zero, components |-> EmptyDict]

\* verification counts for NOT_APPLICABLE as it does for COMPLIANT
OpeningComponentsNotApplicableCounts(score) ==
    << <<"greeting", Float(score.opening_score.greeting_score)>>,
       <<"customer_verification",
         IF score.opening_score.customer_name_verification # "NON_COMPLIANT"
           THEN One ELSE Zero>> >>
\* components of the opening section: greeting, customer_verification
OpeningComponents(score) ==
    << <<"greeting", Float(score.opening_score.greeting_score)>>,
       <<"customer_verification",
         IF score.opening_score.customer_name_verification = "COMPLIANT"
           THEN One ELSE Zero>> >>

\* sum(components.values()) / 2
OpeningRaw(score) == RDiv(SumValues(OpeningComponents(score)), R(2, 1))

\* the language component read from voice_tone_score
CommunicationComponentsToneTwice(score) ==
    << <<"voice_tone", Float(score.communication_score.voice_tone_score)>>,
       <<"speaking_pace", Float(score.communication_score.speaking_pace_score)>>,
       <<"language", Float(score.communication_score.voice_tone_score)>> >>
\* components of the communication section: voice_tone, speaking_pace, language
CommunicationComponents(score) ==
    << <<"voice_tone", Float(score.communication_score.voice_tone_score)>>,
       <<"speaking_pace", Float(score.communication_score.speaking_pace_score)>>,
       <<"language", Float(score.communication_score.language_etiquette_score)>> >>

\* sum(components.values()) / 3
CommunicationRaw(score) == RDiv(SumValues(CommunicationComponents(score)), R(3, 1))

\* components of the negotiation section: effectiveness, solutions, attempts
NegotiationComponents(score) ==
    LET neg == Val(score.negotiation_score)
    IN << <<"effectiveness", IF neg.payment_commitment_obtained THEN One ELSE Zero>>,
          <<"solutions", Capped(Len(neg.solutions_offered))>>,
          <<"attempts", Capped(neg.negotiation_attempts)>> >>

\* (effectiveness + solutions + attempts) / 3
NegotiationRaw(score) ==
    LET neg == Val(score.negotiation_score)
        effectiveness == IF neg.payment_commitment_obtained THEN One ELSE Zero
        solutions == Capped(Len(neg.solutions_offered))
        attempts == Capped(neg.negotiation_attempts)
    IN RDiv(RAdd(RAdd(effectiveness, solutions), attempts), R(3, 1))

\* the renormalising variant: without negotiation the two remaining weights
\* are divided by their sum 0.31
CalculateSectionScoresRenormalized(score) ==
    IF NegotiationApplicable(score)
      THEN [opening |-> Section(OpeningRaw(score), R(6, 100), OpeningComponents(score)),
            communication |->
                Section(CommunicationRaw(score), R(25, 100), CommunicationComponents(score)),
            negotiation |->
                Section(NegotiationRaw(score), R(40, 100), NegotiationComponents(score))]
      ELSE [opening |-> Section(OpeningRaw(score), R(6, 31), OpeningComponents(score)),
            communication |->
                Section(CommunicationRaw(score), R(25, 31), CommunicationComponents(score)),
            negotiation |-> InitialSection]
\* the variant that gives negotiation the weight 0.69 (its 0.40 and the 0.29
\* of compliance)
CalculateSectionScoresFullWeights(score) ==
    [opening |-> Section(OpeningRaw(score), R(6, 100), OpeningComponents(score)),
     communication |->
         Section(CommunicationRaw(score), R(25, 100), CommunicationComponents(score)),
     negotiation |-> IF NegotiationApplicable(score)
                       THEN Section(NegotiationRaw(score), R(69, 100),
                                    NegotiationComponents(score))
                       ELSE InitialSection]
\* calculate_section_scores(score): raw score, weighted score and components
\* of each section; a section that is not computed keeps its initial entry
CalculateSectionScores(score) ==
    [opening |-> Section(OpeningRaw(score), R(6, 100), OpeningComponents(score)),
     communication |->
         Section(CommunicationRaw(score), R(25, 100), CommunicationComponents(score)),
     negotiation |-> IF NegotiationApplicable(score)
                       THEN Section(NegotiationRaw(score), R(40, 100),
                                    NegotiationComponents(score))
                       ELSE InitialSection]

\* a call of calculate_section_scores on the analyzer's result
SectionScores ==
    /\ qa_score # None
    /\ section_scores' = Some(CalculateSectionScores(Val(qa_score)))
    /\ UNCHANGED <<clsVars, raised, min_qa_score, extracted, qa_score, display, dbVars, runVars>>

----------------------------------------------------------------------------
(* ui/scoring.py, ui/dashboard.py, main.py                                 *)

\* has_knockout_violations(violations)
HasKnockoutViolations(violations) ==
    \/ violations.unauthorized_disclosure
    \/ violations.ptp_cheating
    \/ violations.other_violations # << >>

\* render_qa_score: passing_status
PassingStatus(score, min_score) ==
    IF RGe(score.total_score, min_score) THEN "Pass" ELSE "Needs Improvement"

\* render_dashboard: status
DashboardStatus(score) ==
    IF RGe(score.total_score, R(85, 100)) THEN "PASS" ELSE "FAIL"

\* main(): with results in the session, render_dashboard(...) and then
\* render_qa_score(..., min_score=app_config.get("min_qa_score", 0.85))
DisplayResults ==
    /\ qa_score # None
    /\ display' = Some([status |-> DashboardStatus(Val(qa_score)),
                        passing_status |-> PassingStatus(Val(qa_score), min_qa_score),
                        critical_issues_shown |->
                            HasKnockoutViolations(Val(qa_score).knockout_violations)])
    /\ UNCHANGED <<clsVars, raised, min_qa_score, extracted, qa_score, section_scores,
                   dbVars, runVars>>

InitQA ==
    /\ call_data = None
    /\ metrics = None
    /\ raised = None
    /\ min_qa_score \in MinQAScoreSet
    /\ extracted = None
    /\ qa_score = None
    /\ section_scores = None
    /\ display = None
    /\ InitDb({})
    /\ InitSessionState({})

NextQA ==
    \/ AnalyzeTranscript
    \/ SectionScores
    \/ DisplayResults

SpecQA == InitQA /\ [][NextQA]_vars

----------------------------------------------------------------------------
(* The section scorer on its whole input domain: calculate_section_scores  *)
(* is a pure function of the QAScore it is given, so the score is drawn    *)
(* at the start and the only step is the call.                             *)

\* largest negotiation_attempts and longest solutions_offered list drawn;
\* negotiation_attempts is an int without a lower limit, and is drawn from
\* -MaxNegativeAttempts on
MaxAttempts == 11
MaxSolutions == 6
MaxNegativeAttempts == 1

\* every combination of the three axes
CommunicationScoreAll ==
    [voice_tone_score : ScoreLevel,
     speaking_pace_score : ScoreLevel,
     language_etiquette_score : ScoreLevel]

NegotiationScoreAll ==
    [negotiation_attempts : (-MaxNegativeAttempts)..MaxAttempts,
     solutions_offered : ListsUpTo("reschedule", MaxSolutions),
     payment_commitment_obtained : BOOLEAN]

\* the QAScore arguments of calculate_section_scores; the scorer reads
\* neither knockout_violations nor score_breakdown, and total_score is the
\* 0.5767 (173/300) of the PTP example
SectionScoreInputs ==
    [scenario_type : ScenarioType,
     opening_score : OpeningScoreSet,
     communication_score : CommunicationScoreAll,
     negotiation_score : Opt(NegotiationScoreAll),
     knockout_violations :
         {[unauthorized_disclosure |-> FALSE, ptp_cheating |-> FALSE,
           other_violations |-> << >>]},
     total_score : {R(173, 300)},
     score_breakdown : {ZeroBreakdown}]

InitSec ==
    /\ call_data = None
    /\ metrics = None
    /\ raised = None
    /\ min_qa_score = R(85, 100)
    /\ extracted = None
    /\ qa_score \in {Some(score) : score \in SectionScoreInputs}
    /\ section_scores = None
    /\ display = None
    /\ InitDb({})
    /\ InitSessionState({})

NextSec == SectionScores

SpecSec == InitSec /\ [][NextSec]_vars

----------------------------------------------------------------------------
(* utils/db_handler.py: the values save_analysis is given and their JSON   *)
(* text.  A Python value is a record of one shape: its type t, its text s  *)
(* (str and enum members), its number r (float) and its items (the         *)
(* elements of a list, with key "", or the key/value entries of a dict);   *)
(* JSON text is modelled by its syntax tree, in the same shape.  The dicts *)
(* here are the model_dump() of CallData and QAScore: keys are strings.    *)

PNull == [t |-> "none", s |-> "", r |-> Zero, items |-> << >>]
PString(x) == [t |-> "str", s |-> x, r |-> Zero, items |-> << >>]
\* a member of a str-mixin Enum (ScenarioType, ScoreLevel, ComplianceStatus)
PEnum(x) == [t |-> "enum", s |-> x, r |-> Zero, items |-> << >>]
PFloat(x) == [t |-> "float", s |-> "", r |-> x, items |-> << >>]
\* True and False, held in r as 1 and 0
PBool(x) == [t |-> "bool", s |-> "", r |-> IF x THEN One ELSE Zero, items |-> << >>]
PList(l) == [t |-> "list", s |-> "", r |-> Zero,
             items |-> [i \in 1..Len(l) |-> [k |-> "", v |-> l[i]]]]
PDict(entries) == [t |-> "dict", s |-> "", r |-> Zero, items |-> entries]

\* key in d, d[key] and d.get(key) of a dict d
DictHas(d, key) == \E i \in 1..Len(d.items) : d.items[i].k = key
DictItem(d, key) == d.items[CHOOSE i \in 1..Len(d.items) : d.items[i].k = key].v
DictGet(d, key) == IF DictHas(d, key) THEN DictItem(d, key) ELSE PNull

\* bool(v) of None, a list or a dict
Truthy(v) == v.t # "none" /\ ~(v.t \in {"list", "dict"} /\ v.items = << >>)

\* a == b in Python: a str enum member equals the str of its value
RECURSIVE PyEq(_, _)
PyEq(a, b) ==
    CASE a.t \in {"str", "enum"} -> b.t \in {"str", "enum"} /\ a.s = b.s
      [] a.t = "float" -> b.t = "float" /\ a.r = b.r
      [] a.t = "bool" -> b.t = "bool" /\ a.r = b.r
      [] a.t = "none" -> b.t = "none"
      [] a.t = "list" ->
            /\ b.t = "list"
            /\ Len(a.items) = Len(b.items)
            /\ \A i \in 1..Len(a.items) : PyEq(a.items[i].v, b.items[i].v)
      [] a.t = "dict" ->
            /\ b.t = "dict"
            /\ Len(a.items) = Len(b.items)
            /\ \A i \in 1..Len(a.items) :
                 /\ DictHas(b, a.items[i].k)
                 /\ PyEq(a.items[i].v, DictItem(b, a.items[i].k))

\* json.dumps(v): a str and an enum member both become a JSON string
RECURSIVE JsonDumps(_)
JsonDumps(v) ==
    [t |-> CASE v.t \in {"str", "enum"} -> "string"
             [] v.t = "float" -> "number"
             [] v.t = "bool" -> "boolean"
             [] v.t = "none" -> "null"
             [] v.t = "list" -> "array"
             [] v.t = "dict" -> "object",
     s |-> v.s,
     r |-> v.r,
     items |-> [i \in 1..Len(v.items) |->
                   [k |-> v.items[i].k, v |-> JsonDumps(v.items[i].v)]]]

\* json.loads(j): a JSON string becomes a plain str
RECURSIVE JsonLoads(_)
JsonLoads(j) ==
    [t |-> CASE j.t = "string" -> "str"
             [] j.t = "number" -> "float"
             [] j.t = "boolean" -> "bool"
             [] j.t = "null" -> "none"
             [] j.t = "array" -> "list"
             [] j.t = "object" -> "dict",
     s |-> j.s,
     r |-> j.r,
     items |-> [i \in 1..Len(j.items) |->
                   [k |-> j.items[i].k, v |-> JsonLoads(j.items[i].v)]]]

\* classification_results.model_dump(), as far as the store reads it
ClassificationData(scenario) ==
    PDict(<< [k |-> "basic_info",
              v |-> PDict(<< [k |-> "agent_name", v |-> PNull],
                             [k |-> "scenario_type", v |-> PEnum(scenario)] >>)] >>)

\* the model_dump() of a KnockoutViolation, without its evidence texts
KnockoutData(unauthorized_disclosure, ptp_cheating, other_violations) ==
    PDict(<< [k |-> "unauthorized_disclosure", v |-> PBool(unauthorized_disclosure)],
             [k |-> "ptp_cheating", v |-> PBool(ptp_cheating)],
             [k |-> "other_violations",
              v |-> PList([i \in 1..Len(other_violations) |->
                              PString(other_violations[i])])] >>)

\* qa_score.model_dump(), as far as the store reads it
QaData(scenario, total_score, knockout_violations) ==
    PDict(<< [k |-> "scenario_type", v |-> PEnum(scenario)],
             [k |-> "knockout_violations", v |-> knockout_violations],
             [k |-> "total_score", v |-> PFloat(total_score)] >>)

\* the arguments of save_analysis: a PTP call with total_score exactly 0.85,
\* flagged for unauthorized disclosure and without other violations, a TPC
\* call at 0.8 flagged for PTP cheating and with two other violations, and
\* a call whose classification_data has no "basic_info"
SaveInputs ==
    {[transcript |-> "Agent: good morning",
      classification_data |-> ClassificationData("PTP"),
      qa_data |-> QaData("PTP", R(85, 100), KnockoutData(TRUE, FALSE, << >>)),
      metadata |-> PDict(<< [k |-> "model_name", v |-> PString("gpt-4o")] >>)],
     [transcript |-> "Agent: pay today",
      classification_data |-> ClassificationData("TPC"),
      qa_data |-> QaData("TPC", R(8, 10),
                         KnockoutData(FALSE, TRUE, <<"threatened the customer",
                                                    "insulted the customer">>)),
      metadata |-> PNull],
     [transcript |-> "Agent: hello",
      classification_data |-> PDict(<< >>),
      qa_data |-> QaData("UNKNOWN", Zero, KnockoutData(FALSE, FALSE, << >>)),
      metadata |-> PNull]}

\* most analyses rows written in one behaviour, and the readings of
\* datetime.now() (the ISO text of a later instant sorts after an earlier one)
MaxSaves == 3
MaxClock == 2

----------------------------------------------------------------------------
(* utils/db_handler.py: save_analysis.  The connection opens a transaction *)
(* at its first INSERT, which takes the database's write lock; other       *)
(* connections read the committed tables only.  Leaving the with block by  *)
(* an exception rolls the transaction back.                                *)

Raised(error) == [op |-> "raise", error |-> error]

\* the subscripts evaluated for the INSERT parameters exist
KeysPresent(inp) ==
    /\ DictHas(inp.classification_data, "basic_info")
    /\ DictHas(DictItem(inp.classification_data, "basic_info"), "scenario_type")
    /\ DictHas(inp.qa_data, "total_score")

\* qa_score written as a percentage
AnalysesRowScorePercent(id, now, inp) ==
    [id |-> id,
     timestamp |-> now,
     transcript_text |-> inp.transcript,
     scenario_type |->
         DictItem(DictItem(inp.classification_data, "basic_info"), "scenario_type").s,
     qa_score |-> RMul(DictItem(inp.qa_data, "total_score").r, R(100, 1)),
     classification_data |-> JsonDumps(inp.classification_data),
     qa_data |-> JsonDumps(inp.qa_data),
     metadata |-> IF Truthy(inp.metadata) THEN Some(JsonDumps(inp.metadata)) ELSE None]
\* both JSON columns written from qa_data
AnalysesRowQaTwice(id, now, inp) ==
    [id |-> id,
     timestamp |-> now,
     transcript_text |-> inp.transcript,
     scenario_type |->
         DictItem(DictItem(inp.classification_data, "basic_info"), "scenario_type").s,
     qa_score |-> DictItem(inp.qa_data, "total_score").r,
     classification_data |-> JsonDumps(inp.qa_data),
     qa_data |-> JsonDumps(inp.qa_data),
     metadata |-> IF Truthy(inp.metadata) THEN Some(JsonDumps(inp.metadata)) ELSE None]
\* the row of table analyses the INSERT writes; a NULL column is None
AnalysesRow(id, now, inp) ==
    [id |-> id,
     timestamp |-> now,
     transcript_text |-> inp.transcript,
     scenario_type |->
         DictItem(DictItem(inp.classification_data, "basic_info"), "scenario_type").s,
     qa_score |-> DictItem(inp.qa_data, "total_score").r,
     classification_data |-> JsonDumps(inp.classification_data),
     qa_data |-> JsonDumps(inp.qa_data),
     metadata |-> IF Truthy(inp.metadata) THEN Some(JsonDumps(inp.metadata)) ELSE None]

\* the loop also goes through the unauthorized_disclosure flag when it is set
ViolationsWithFlags(qa_data) ==
    IF Truthy(DictGet(qa_data, "knockout_violations"))
      THEN (IF DictGet(DictItem(qa_data, "knockout_violations"),
                       "unauthorized_disclosure").r = One
              THEN << [k |-> "", v |-> PString("unauthorized_disclosure")] >>
              ELSE << >>)
           \o DictGet(DictItem(qa_data, "knockout_violations"), "other_violations").items
      ELSE << >>
\* the violations the loop goes through
Violations(qa_data) ==
    IF Truthy(DictGet(qa_data, "knockout_violations"))
      THEN DictGet(DictItem(qa_data, "knockout_violations"), "other_violations").items
      ELSE << >>

\* the clients inside a save transaction
Writing == {c \in DOMAIN conn : conn[c].pc = "issues"}

\* save_analysis up to and including the INSERT into analyses: a missing
\* key raises KeyError before anything is written; the INSERT fails when
\* the write lock is not obtained in time or the write itself fails;
\* otherwise the row, with the next AUTOINCREMENT id, is in the transaction
SaveInsertAnalysis(c) ==
    /\ conn[c].pc = "idle"
    /\ Len(analyses) + Cardinality(Writing) < MaxSaves
    /\ \E inp \in SaveInputs, now \in 1..MaxClock :
         IF ~KeysPresent(inp)
           THEN /\ conn' = [conn EXCEPT ![c].result = Raised("KeyError")]
                /\ UNCHANGED writer
           ELSE \/ /\ writer = None
                   /\ writer' = Some(c)
                   /\ conn' = [conn EXCEPT ![c] =
                                 [pc |-> "issues",
                                  input |-> Some(inp),
                                  tx |-> Some([row |-> AnalysesRow(sqlite_sequence.analyses + 1,
                                                                   now, inp),
                                               issues |-> << >>]),
                                  k |-> 1,
                                  result |-> [op |-> "none"]]]
                \/ /\ conn' = [conn EXCEPT ![c].result = Raised("OperationalError")]
                   /\ UNCHANGED writer
    /\ UNCHANGED <<clsVars, qaVars, runVars, raised, analyses, critical_issues, sqlite_sequence, saved>>

\* one turn of the loop: the INSERT into critical_issues of violation k
SaveInsertIssue(c) ==
    /\ conn[c].pc = "issues"
    /\ conn[c].k <= Len(Violations(Val(conn[c].input).qa_data))
    /\ LET tx == Val(conn[c].tx)
           violation == Violations(Val(conn[c].input).qa_data)[conn[c].k].v
           issue == [id |-> sqlite_sequence.critical_issues + Len(tx.issues) + 1,
                     analysis_id |-> tx.row.id,
                     issue_type |-> "violation",
                     description |-> violation.s,
                     evidence |-> None]
       IN conn' = [conn EXCEPT ![c].tx = Some([tx EXCEPT !.issues = Append(@, issue)]),
                               ![c].k = @ + 1]
    /\ UNCHANGED <<clsVars, qaVars, runVars, raised, analyses, critical_issues, sqlite_sequence, writer,
                   saved>>

\* the largest id of table analyses as committed, read instead of the
\* cursor's own row id
LastRowIdOfTable(c) == sqlite_sequence.analyses
\* cursor.lastrowid: the id of the row this cursor inserted
LastRowId(c) == Val(conn[c].tx).row.id

\* conn.commit() and return analysis_id, after the last violation
SaveCommit(c) ==
    /\ conn[c].pc = "issues"
    /\ conn[c].k > Len(Violations(Val(conn[c].input).qa_data))
    /\ LET tx == Val(conn[c].tx)
           inp == Val(conn[c].input)
       IN /\ analyses' = Append(analyses, tx.row)
          /\ critical_issues' = critical_issues \o tx.issues
          /\ sqlite_sequence' = [analyses |-> tx.row.id,
                                 critical_issues |->
                                     sqlite_sequence.critical_issues + Len(tx.issues)]
          /\ saved' = Append(saved, [id |-> LastRowId(c),
                                     timestamp |-> tx.row.timestamp,
                                     transcript |-> inp.transcript,
                                     classification_data |-> inp.classification_data,
                                     qa_data |-> inp.qa_data])
          /\ conn' = [conn EXCEPT ![c] =
                        [IdleConn EXCEPT !.result = [op |-> "save", id |-> LastRowId(c)]]]
    /\ writer' = None
    /\ UNCHANGED <<clsVars, qaVars, runVars, raised>>

\* the exception leaves what the transaction had written so far committed
SaveFailsKeepsPartial(c) ==
    /\ conn[c].pc = "issues"
    /\ LET tx == Val(conn[c].tx)
       IN /\ analyses' = Append(analyses, tx.row)
          /\ critical_issues' = critical_issues \o tx.issues
          /\ sqlite_sequence' = [analyses |-> tx.row.id,
                                 critical_issues |->
                                     sqlite_sequence.critical_issues + Len(tx.issues)]
    /\ conn' = [conn EXCEPT ![c] = [IdleConn EXCEPT !.result = Raised("OperationalError")]]
    /\ writer' = None
    /\ UNCHANGED <<clsVars, qaVars, runVars, raised, saved>>
\* an INSERT into critical_issues or the commit fails: the with block is
\* left by the exception and the transaction is rolled back
SaveFails(c) ==
    /\ conn[c].pc = "issues"
    /\ conn' = [conn EXCEPT ![c] = [IdleConn EXCEPT !.result = Raised("OperationalError")]]
    /\ writer' = None
    /\ UNCHANGED <<clsVars, qaVars, runVars, raised, analyses, critical_issues, sqlite_sequence, saved>>

----------------------------------------------------------------------------
(* utils/db_handler.py: get_analysis, get_recent_analyses, get_statistics  *)
(* and export_analysis.  Each runs SELECTs on the committed tables.        *)

\* the ids and limits the calls are made with
QueryArgs == 0..(MaxSaves + 1)

\* get_analysis(analysis_id): None, or the dict built from the row
GetAnalysisValue(analysis_id) ==
    LET rows == SelectSeq(analyses, LAMBDA row : row.id = analysis_id)
    IN IF rows = << >>
         THEN None
         ELSE LET row == rows[1]
              IN Some([id |-> row.id,
                       timestamp |-> row.timestamp,
                       transcript |-> row.transcript_text,
                       scenario_type |-> row.scenario_type,
                       qa_score |-> row.qa_score,
                       classification_data |-> JsonLoads(row.classification_data),
                       qa_data |-> JsonLoads(row.qa_data),
                       metadata |-> IF row.metadata # None
                                      THEN Some(JsonLoads(Val(row.metadata)))
                                      ELSE None])

GetAnalysis(c) ==
    /\ conn[c].pc = "idle"
    /\ \E analysis_id \in QueryArgs :
         conn' = [conn EXCEPT ![c].result =
                    [op |-> "get", id |-> analysis_id, value |-> GetAnalysisValue(analysis_id)]]
    /\ UNCHANGED <<clsVars, qaVars, runVars, raised, analyses, critical_issues, sqlite_sequence, writer,
                   saved>>

\* ORDER BY timestamp DESC: the orders of the rows in which no row comes
\* before one with a larger timestamp (rows of equal timestamp in any order)
TimestampDescOrders ==
    {order \in Permutations(1..Len(analyses)) :
        \A i, j \in 1..Len(analyses) :
            i < j => analyses[order[i]].timestamp >= analyses[order[j]].timestamp}

Min(a, b) == IF a <= b THEN a ELSE b

\* the SELECT of get_recent_analyses for one such order, cut by LIMIT
RecentAnalyses(order, limit) ==
    [i \in 1..Min(limit, Len(analyses)) |->
        [id |-> analyses[order[i]].id,
         timestamp |-> analyses[order[i]].timestamp,
         scenario_type |-> analyses[order[i]].scenario_type,
         qa_score |-> analyses[order[i]].qa_score]]

GetRecentAnalyses(c) ==
    /\ conn[c].pc = "idle"
    /\ \E limit \in QueryArgs, order \in TimestampDescOrders :
         conn' = [conn EXCEPT ![c].result =
                    [op |-> "recent", limit |-> limit, rows |-> RecentAnalyses(order, limit)]]
    /\ UNCHANGED <<clsVars, qaVars, runVars, raised, analyses, critical_issues, sqlite_sequence, writer,
                   saved>>

\* COUNT(CASE WHEN qa_score > 0.85 THEN 1 END)
PassingCountStrict ==
    Cardinality({i \in 1..Len(analyses) :
                    RGe(analyses[i].qa_score, R(85, 100)) /\ analyses[i].qa_score # R(85, 100)})
\* COUNT(CASE WHEN qa_score >= 0.85 THEN 1 END)
PassingCount == Cardinality({i \in 1..Len(analyses) : RGe(analyses[i].qa_score, R(85, 100))})

RECURSIVE SumScores(_)
SumScores(rows) ==
    IF rows = << >> THEN Zero ELSE RAdd(Head(rows).qa_score, SumScores(Tail(rows)))

\* AVG(qa_score): NULL for an empty table
AvgScore ==
    IF analyses = << >> THEN None ELSE Some(RDiv(SumScores(analyses), R(Len(analyses), 1)))

\* the dict built from SELECT scenario_type, COUNT(*) ... GROUP BY
\* scenario_type, as a function on the scenario types that occur
ScenarioDistribution ==
    [scenario \in {analyses[i].scenario_type : i \in 1..Len(analyses)} |->
        Cardinality({i \in 1..Len(analyses) : analyses[i].scenario_type = scenario})]

\* the dict get_statistics returns
Statistics ==
    [total_analyses |-> Len(analyses),
     average_score |-> AvgScore,
     passing_rate |-> IF Len(analyses) > 0 THEN R(PassingCount, Len(analyses)) ELSE Zero,
     scenario_distribution |-> ScenarioDistribution]

GetStatistics(c) ==
    /\ conn[c].pc = "idle"
    /\ conn' = [conn EXCEPT ![c].result = [op |-> "stats", value |-> Statistics]]
    /\ UNCHANGED <<clsVars, qaVars, runVars, raised, analyses, critical_issues, sqlite_sequence, writer,
                   saved>>

\* export_analysis(analysis_id, filepath): the file is written only when
\* the analysis exists; the database is read, not written
ExportAnalysis(c) ==
    /\ conn[c].pc = "idle"
    /\ \E analysis_id \in QueryArgs :
         conn' = [conn EXCEPT ![c].result =
                    [op |-> "export", id |-> analysis_id,
                     written |-> GetAnalysisValue(analysis_id) # None]]
    /\ UNCHANGED <<clsVars, qaVars, runVars, raised, analyses, critical_issues, sqlite_sequence, writer,
                   saved>>

----------------------------------------------------------------------------
(* The store used by one session (main.py, ui/sidebar.py), and the store   *)
(* written by two independent analyses at the same time                    *)

\* the session of the application, and two analyses that save independently
StoreClients == {"session"}
SaveClients == {"analysis1", "analysis2"}

InitStore ==
    /\ call_data = None
    /\ metrics = None
    /\ raised = None
    /\ min_qa_score = R(85, 100)
    /\ extracted = None
    /\ qa_score = None
    /\ section_scores = None
    /\ display = None
    /\ InitDb(StoreClients)
    /\ InitSessionState({})

NextStore ==
    \/ \E c \in StoreClients : SaveInsertAnalysis(c)
    \/ \E c \in StoreClients : SaveInsertIssue(c)
    \/ \E c \in StoreClients : SaveCommit(c)
    \/ \E c \in StoreClients : SaveFails(c)
    \/ \E c \in StoreClients : GetAnalysis(c)
    \/ \E c \in StoreClients : GetRecentAnalyses(c)
    \/ \E c \in StoreClients : GetStatistics(c)
    \/ \E c \in StoreClients : ExportAnalysis(c)

SpecStore == InitStore /\ [][NextStore]_vars

InitSave ==
    /\ call_data = None
    /\ metrics = None
    /\ raised = None
    /\ min_qa_score = R(85, 100)
    /\ extracted = None
    /\ qa_score = None
    /\ section_scores = None
    /\ display = None
    /\ InitDb(SaveClients)
    /\ InitSessionState({})

NextSave ==
    \/ \E c \in SaveClients : SaveInsertAnalysis(c)
    \/ \E c \in SaveClients : SaveInsertIssue(c)
    \/ \E c \in SaveClients : SaveCommit(c)
    \/ \E c \in SaveClients : SaveFails(c)
    \/ \E c \in SaveClients : GetAnalysis(c)

SpecSave == InitSave /\ [][NextSave]_vars

----------------------------------------------------------------------------
(* main.py: the analysis run started by the "Start Analysis" button, in    *)
(* two browser sessions of the one application.  Each session has its own  *)
(* st.session_state; the FileHandler of every session is built on the same *)
(* data_dir, and db is the one DatabaseHandler of the process.             *)

Sessions == {"s1", "s2"}

\* most analysis runs started in one behaviour
MaxRuns == 2

RECURSIVE SumRuns(_)
SumRuns(ss) ==
    IF ss = {} THEN 0
    ELSE LET s == CHOOSE x \in ss : TRUE IN session[s].run + SumRuns(ss \ {s})

\* the analysis runs started so far
RunsStarted == SumRuns(DOMAIN session)

\* the cleaned transcript each session has uploaded
CleanedTranscript(s) == IF s = "s1" THEN "Agent: good morning" ELSE "Agent: pay today"

\* what structured_llm.invoke raises: a timeout of the request, or a
\* completion that does not validate against the schema
ServiceErrors ==
    {[kind |-> "APITimeoutError", message |-> "Request timed out."],
     [kind |-> "OutputParserException", message |-> "Failed to parse CallData"]}

\* the scenario types the classification comes back with
RunScenarios == {"PTP", "TPC"}

\* the QAScore instances the service comes back with, as far as the store
\* and the file read them
RunQAScores ==
    {[scenario_type |-> "PTP", total_score |-> R(85, 100),
      knockout_violations |-> KnockoutData(FALSE, FALSE, << >>)],
     [scenario_type |-> "TPC", total_score |-> R(8, 10),
      knockout_violations |-> KnockoutData(FALSE, TRUE, <<"threatened the customer">>)]}

\* the run a session is in, which labels what that run produced
ThisRun(s) == <<s, session[s].run>>

\* the except clause of CallClassificationAnalyzer.analyze_transcript
WrapClassificationError(e) ==
    [kind |-> "Exception", message |-> "Error during call classification: " \o e.message]

\* the service's error is raised again as it is
WrapScoringErrorUnchanged(e) == e
\* the except clause of QAScoringAnalyzer.analyze_transcript
WrapScoringError(e) ==
    [kind |-> "Exception", message |-> "Error during QA scoring: " \o e.message]

\* one call of structured_llm.invoke, as the run's history keeps it
Invocation(kind, scenario_type, ok) == [kind |-> kind, scenario_type |-> scenario_type, ok |-> ok]

\* the button is pressed: classifier.analyze_transcript(cleaned_transcript)
\* makes its one call of the service; the result goes to the session state,
\* an error goes wrapped to the except clause of main, which returns
RunClassify(s) ==
    /\ session[s].pc = "idle"
    /\ RunsStarted < MaxRuns
    /\ \/ \E scenario \in RunScenarios :
            session' = [session EXCEPT ![s] =
                          [@ EXCEPT !.pc = "classified",
                                    !.run = @ + 1,
                                    !.classification_results =
                                        Some([by |-> <<s, session[s].run + 1>>,
                                              scenario_type |-> scenario]),
                                    !.invocations =
                                        << Invocation("classification", None, TRUE) >>,
                                    !.service_error = None,
                                    !.caught = None]]
       \/ \E e \in ServiceErrors :
            session' = [session EXCEPT ![s] =
                          [@ EXCEPT !.pc = "idle",
                                    !.run = @ + 1,
                                    !.invocations =
                                        << Invocation("classification", None, FALSE) >>,
                                    !.service_error = Some(e),
                                    !.caught = Some(WrapClassificationError(e))]]
    /\ UNCHANGED <<clsVars, qaVars, raised, dbVars, latest_analysis_file>>

\* the scenario_type argument of scorer.analyze_transcript
ScoringScenario(s) == Val(session[s].classification_results).scenario_type

\* a failed call of the service is made once more before giving up
RunScoreRetrying(s) ==
    /\ session[s].pc = "classified"
    /\ \/ \E qa \in RunQAScores :
            session' = [session EXCEPT ![s] =
                          [@ EXCEPT !.pc = "scored",
                                    !.qa_score = Some([by |-> ThisRun(s),
                                                       scenario_type |-> qa.scenario_type,
                                                       total_score |-> qa.total_score,
                                                       knockout_violations |->
                                                           qa.knockout_violations]),
                                    !.invocations =
                                        Append(@, Invocation("qa", Some(ScoringScenario(s)),
                                                             TRUE))]]
       \/ \E e \in ServiceErrors :
            session' = [session EXCEPT ![s] =
                          [@ EXCEPT !.pc = "idle",
                                    !.invocations =
                                        @ \o << Invocation("qa", Some(ScoringScenario(s)),
                                                           FALSE),
                                                Invocation("qa", Some(ScoringScenario(s)),
                                                           FALSE) >>,
                                    !.service_error = Some(e),
                                    !.caught = Some(WrapScoringError(e))]]
    /\ UNCHANGED <<clsVars, qaVars, raised, dbVars, latest_analysis_file>>
\* scorer.analyze_transcript(transcript, scenario_type) makes its one call
\* of the service; the result goes to the session state, an error goes
\* wrapped to the except clause of main, which returns
RunScore(s) ==
    /\ session[s].pc = "classified"
    /\ \/ \E qa \in RunQAScores :
            session' = [session EXCEPT ![s] =
                          [@ EXCEPT !.pc = "scored",
                                    !.qa_score = Some([by |-> ThisRun(s),
                                                       scenario_type |-> qa.scenario_type,
                                                       total_score |-> qa.total_score,
                                                       knockout_violations |->
                                                           qa.knockout_violations]),
                                    !.invocations =
                                        Append(@, Invocation("qa", Some(ScoringScenario(s)),
                                                             TRUE))]]
       \/ \E e \in ServiceErrors :
            session' = [session EXCEPT ![s] =
                          [@ EXCEPT !.pc = "idle",
                                    !.invocations =
                                        Append(@, Invocation("qa", Some(ScoringScenario(s)),
                                                             FALSE)),
                                    !.service_error = Some(e),
                                    !.caught = Some(WrapScoringError(e))]]
    /\ UNCHANGED <<clsVars, qaVars, raised, dbVars, latest_analysis_file>>

\* model_dump() of a result held in the session state; None when there is none
ClassificationDump(s) ==
    IF session[s].classification_results = None
      THEN PNull
      ELSE ClassificationData(Val(session[s].classification_results).scenario_type)
QaDump(s) ==
    IF session[s].qa_score = None
      THEN PNull
      ELSE QaData(Val(session[s].qa_score).scenario_type,
                  Val(session[s].qa_score).total_score,
                  Val(session[s].qa_score).knockout_violations)

\* the dict main hands to file_handler.save_analysis
FileData(s) ==
    PDict(<< [k |-> "classification", v |-> ClassificationDump(s)],
             [k |-> "qa_score", v |-> QaDump(s)] >>)

\* the file is also written as soon as the classification is there
RunSaveFileEarly(s) ==
    /\ session[s].pc \in {"classified", "scored"}
    /\ latest_analysis_file' = Some([by |-> ThisRun(s), text |-> JsonDumps(FileData(s))])
    /\ session' = [session EXCEPT ![s].pc = IF @ = "scored" THEN "filed" ELSE @]
    /\ UNCHANGED <<clsVars, qaVars, raised, dbVars>>
\* file_handler.save_analysis({...}, "latest_analysis"): the file
\* analysis_latest_analysis.json under data_dir is opened for writing and
\* holds the JSON text of the dict
RunSaveFile(s) ==
    /\ session[s].pc = "scored"
    /\ latest_analysis_file' = Some([by |-> ThisRun(s), text |-> JsonDumps(FileData(s))])
    /\ session' = [session EXCEPT ![s].pc = "filed"]
    /\ UNCHANGED <<clsVars, qaVars, raised, dbVars>>

\* the arguments of db.save_analysis in main
RunSaveInput(s) ==
    [transcript |-> CleanedTranscript(s),
     classification_data |-> ClassificationDump(s),
     qa_data |-> QaDump(s),
     metadata |-> PDict(<< [k |-> "model_name", v |-> PString("gpt-4o")],
                           [k |-> "temperature", v |-> PFloat(Zero)] >>)]

\* the critical_issues rows save_analysis writes for the analysis
IssueRows(analysis_id, qa_data) ==
    [i \in 1..Len(Violations(qa_data)) |->
        [id |-> sqlite_sequence.critical_issues + i,
         analysis_id |-> analysis_id,
         issue_type |-> "violation",
         description |-> Violations(qa_data)[i].v.s,
         evidence |-> None]]

\* db.save_analysis(...) and st.session_state.current_analysis_id: the
\* transaction commits and the id is kept, or it fails, is rolled back and
\* the error goes to the except clause of main, which returns
RunSaveDb(s) ==
    /\ session[s].pc = "filed"
    /\ \/ \E now \in 1..MaxClock :
            LET inp == RunSaveInput(s)
                row == AnalysesRow(sqlite_sequence.analyses + 1, now, inp)
                issues == IssueRows(row.id, inp.qa_data)
            IN /\ analyses' = Append(analyses, row)
               /\ critical_issues' = critical_issues \o issues
               /\ sqlite_sequence' = [analyses |-> row.id,
                                      critical_issues |->
                                          sqlite_sequence.critical_issues + Len(issues)]
               /\ saved' = Append(saved, [id |-> row.id,
                                          timestamp |-> row.timestamp,
                                          transcript |-> inp.transcript,
                                          classification_data |-> inp.classification_data,
                                          qa_data |-> inp.qa_data])
               /\ session' = [session EXCEPT ![s].pc = "saved",
                                             ![s].current_analysis_id = Some(row.id)]
       \/ /\ session' = [session EXCEPT
                           ![s].pc = "idle",
                           ![s].caught = Some([kind |-> "OperationalError",
                                               message |-> "database is locked"])]
          /\ UNCHANGED <<analyses, critical_issues, sqlite_sequence, saved>>
    /\ UNCHANGED <<clsVars, qaVars, raised, writer, conn, latest_analysis_file>>

\* file_handler.load_analysis("latest_analysis"): None when there is no file
LoadAnalysis ==
    IF latest_analysis_file = None
      THEN None
      ELSE Some([by |-> Val(latest_analysis_file).by,
                 data |-> JsonLoads(Val(latest_analysis_file).text)])

\* the rest of the script, after a run that saved or in a rerun without
\* the button: when both results are in the session state they are shown
\* and the download is prepared from the latest-analysis file
RunDisplay(s) ==
    /\ session[s].pc \in {"idle", "saved"}
    /\ session[s].classification_results # None
    /\ session[s].qa_score # None
    /\ session' = [session EXCEPT ![s].pc = "idle", ![s].download = LoadAnalysis]
    /\ UNCHANGED <<clsVars, qaVars, raised, dbVars, latest_analysis_file>>

InitRun ==
    /\ call_data = None
    /\ metrics = None
    /\ raised = None
    /\ min_qa_score = R(85, 100)
    /\ extracted = None
    /\ qa_score = None
    /\ section_scores = None
    /\ display = None
    /\ InitDb({})
    /\ InitSessionState(Sessions)

NextRun ==
    \/ \E s \in Sessions : RunClassify(s)
    \/ \E s \in Sessions : RunScore(s)
    \/ \E s \in Sessions : RunSaveFile(s)
    \/ \E s \in Sessions : RunSaveDb(s)
    \/ \E s \in Sessions : RunDisplay(s)

SpecRun == InitRun /\ [][NextRun]_vars

----------------------------------------------------------------------------
(* Properties of the QA score, the section scorer and the reported         *)
(* verdicts, checked under SpecQA                                          *)

QA == Val(qa_score)

KnockedOut ==
    \/ QA.knockout_violations.unauthorized_disclosure
    \/ QA.knockout_violations.ptp_cheating
    \/ QA.knockout_violations.other_violations # << >>

Tolerance == R(1, 1000000)
Near(a, b) == LET diff == RSub(a, b) IN RLe(R(Abs(diff.n), diff.d), Tolerance)

\* C1: a QAScore with any knockout violation has total_score 0 and is
\* reported as FAIL wherever its verdict is shown, never as Pass.
C1_KnockoutIsZeroAndFail ==
    (display # None /\ KnockedOut) =>
        /\ QA.total_score = Zero
        /\ Val(display).status = "FAIL"
        /\ Val(display).passing_status # "Pass"

\* C2: for a QAScore without knockout violations that the scoring analyzer
\* returns, the three score_breakdown values sum to total_score (within 1e-6).
C2_BreakdownSumsToTotal ==
    (qa_score # None /\ ~KnockedOut) =>
        Near(SumValues(QA.score_breakdown), QA.total_score)

\* (opening_raw * 0.06 + communication_raw * 0.25) / 0.31
C3_RenormalizedTotal ==
    RDiv(RAdd(RMul(OpeningRaw(QA), R(6, 100)), RMul(CommunicationRaw(QA), R(25, 100))),
         R(31, 100))

C3_WeightedSum ==
    RAdd(RAdd(Val(section_scores).opening.weighted_score,
              Val(section_scores).communication.weighted_score),
         Val(section_scores).negotiation.weighted_score)

C4_VerdictByConfiguredThreshold ==
    (display # None /\ ~KnockedOut) =>
        /\ Val(display).passing_status = "Pass" <=> RGe(QA.total_score, min_qa_score)
        /\ Val(display).status = "PASS" <=> RGe(QA.total_score, min_qa_score)

\* C5: when the extraction returns a QAScore with a missing or empty
\* score_breakdown, the result handed to the caller has the all-zero
\* breakdown and total_score 0.
C5_EmptyBreakdownGivesZeroTotal ==
    (extracted # None /\ qa_score # None /\ Val(extracted).score_breakdown = EmptyDict) =>
        /\ QA.score_breakdown = ZeroBreakdown
        /\ QA.total_score = Zero

\* C26: the only change made to an extracted QAScore is the zero-patch of
\* an empty score_breakdown: analyze_transcript leaves a non-empty
\* score_breakdown and every other field as extracted, and
\* calculate_section_scores (like the display) changes no field of it.
C26_OnlyBreakdownIsPatched ==
    (extracted # None /\ qa_score # None) =>
        LET result == Val(extracted)
        IN /\ QA.scenario_type = result.scenario_type
           /\ QA.opening_score = result.opening_score
           /\ QA.communication_score = result.communication_score
           /\ QA.negotiation_score = result.negotiation_score
           /\ QA.knockout_violations = result.knockout_violations
           /\ QA.total_score = result.total_score
           /\ result.score_breakdown # EmptyDict => QA.score_breakdown = result.score_breakdown
           /\ result.score_breakdown = EmptyDict => QA.score_breakdown = ZeroBreakdown

\* an extraction with an empty breakdown and total_score 0.8, after the
\* section scores were calculated: only the breakdown differs
C26_Witness ==
    /\ extracted # None
    /\ qa_score # None
    /\ section_scores # None
    /\ Val(extracted).score_breakdown = EmptyDict
    /\ Val(extracted).total_score = R(8, 10)
    /\ QA.total_score = R(8, 10)
    /\ QA.score_breakdown = ZeroBreakdown

----------------------------------------------------------------------------
(* Properties of the classification schema and the confidence estimator,   *)
(* checked under SpecCls                                                   *)

Computed == call_data # None /\ metrics # None
Basic == Val(call_data).basic_info
Present(o) == o # None /\ Val(o) # ""

\* C6: constructing a CallData fails whenever a detail variant other than
\* the one selected by basic_info.scenario_type is non-null, so that every
\* CallData that exists has at most one detail variant, matching its
\* scenario (and none for UNKNOWN).
C6_OnlySelectedVariant ==
    call_data # None =>
        /\ Val(call_data).ptp_details # None => Basic.scenario_type = "PTP"
        /\ Val(call_data).refuse_details # None => Basic.scenario_type = "REFUSE_TO_PAY"
        /\ Val(call_data).tpc_details # None => Basic.scenario_type = "TPC"

\* the number k of the 7 BasicCallInfo fields that hold something
C7_k ==
    (IF Present(Basic.agent_name) THEN 1 ELSE 0)
    + (IF Present(Basic.customer_name) THEN 1 ELSE 0)
    + 1
    + (IF Basic.classification_reason # "" THEN 1 ELSE 0)
    + (IF Present(Basic.call_duration) THEN 1 ELSE 0)
    + (IF Basic.amounts_mentioned # << >> THEN 1 ELSE 0)
    + (IF Present(Basic.payment_date_mentioned) THEN 1 ELSE 0)

\* C7: information_completeness is exactly k/7, k the number of the 7
\* BasicCallInfo fields that are non-null, not "" and not []; scenario_type
\* always counts, so only-scenario_type gives 1/7 and all seven give 1.
C7_CompletenessIsKOver7 ==
    Computed =>
        /\ Val(metrics).information_completeness = R(C7_k, 7)
        /\ C7_k = 7 => Val(metrics).information_completeness = One
        /\ C7_k = 1 => Val(metrics).information_completeness = R(1, 7)

\* only scenario_type (UNKNOWN) counts; an empty-string name does not
C7_Witness ==
    /\ Computed
    /\ Basic.scenario_type = "UNKNOWN"
    /\ Basic.agent_name = Some("")
    /\ C7_k = 1
    /\ Val(metrics).information_completeness = R(1, 7)

\* C8: classification_confidence is 0.8 when classification_reason is a
\* non-empty string and 0.0 otherwise, whatever the other fields are.
C8_ConfidenceFromReasonOnly ==
    Computed =>
        Val(metrics).classification_confidence =
            (IF Basic.classification_reason # "" THEN R(8, 10) ELSE Zero)

\* a classified, fully detailed PTP call without a reason still gets 0.0
C8_Witness ==
    /\ Computed
    /\ Basic.classification_reason = ""
    /\ Basic.scenario_type = "PTP"
    /\ Val(call_data).ptp_details # None
    /\ Val(metrics).classification_confidence = Zero

\* the value C9 states, case by case ("present" read as non-null and non-empty)
C9_Expected ==
    LET cd == Val(call_data) IN
    CASE /\ Basic.scenario_type = "PTP"
         /\ cd.ptp_details # None
         /\ Present(Val(cd.ptp_details).promised_date)
         /\ Val(cd.ptp_details).promised_amount # None -> R(9, 10)
      [] /\ Basic.scenario_type = "TPC"
         /\ cd.tpc_details # None
         /\ Present(Val(cd.tpc_details).relationship_to_customer) -> R(8, 10)
      [] /\ Basic.scenario_type = "REFUSE_TO_PAY"
         /\ cd.refuse_details # None
         /\ Present(Val(cd.refuse_details).reason) -> R(8, 10)
      [] OTHER -> Zero

\* C9: evidence_strength is 0.9 for PTP with promised date and amount, 0.8
\* for TPC with relationship_to_customer, 0.8 for REFUSE_TO_PAY with reason,
\* and 0.0 in every other case (UNKNOWN, missing variant, variant of another
\* scenario).
C9_EvidenceStrengthByScenario ==
    Computed => Val(metrics).evidence_strength = C9_Expected

\* a complete PTP variant on a call classified TPC contributes nothing
C9_Witness ==
    /\ Computed
    /\ Basic.scenario_type = "TPC"
    /\ Val(call_data).tpc_details = None
    /\ Val(call_data).ptp_details # None
    /\ Present(Val(Val(call_data).ptp_details).promised_date)
    /\ Val(Val(call_data).ptp_details).promised_amount # None
    /\ Val(metrics).evidence_strength = Zero

InUnit(x) == RGe(x, Zero) /\ RLe(x, One)

\* C10: get_confidence_metrics is total and bounded: on every CallData it
\* can be called, returns without error a record whose three values lie in
\* [0,1], and leaves its input as it was.
C10_TotalBoundedPure ==
    [][GetConfidenceMetrics =>
         /\ raised' = None
         /\ metrics' # None
         /\ InUnit(Val(metrics').classification_confidence)
         /\ InUnit(Val(metrics').information_completeness)
         /\ InUnit(Val(metrics').evidence_strength)
         /\ call_data' = call_data]_vars

\* metrics of an UNKNOWN call with nothing extracted but two stray variants
C10_Witness ==
    /\ Computed
    /\ Basic.scenario_type = "UNKNOWN"
    /\ C7_k = 1
    /\ Val(call_data).ptp_details # None
    /\ Val(call_data).refuse_details # None
    /\ Val(metrics).evidence_strength = Zero

----------------------------------------------------------------------------
(* Properties of the section scorer, checked under SpecSec                 *)

Scored == qa_score # None /\ section_scores # None
Sections == Val(section_scores)

\* d[key] of a dict given as a sequence of <<key, value>> pairs
Lookup(d, key) == d[CHOOSE i \in 1..Len(d) : d[i][1] = key][2]

\* the verification value C11 states for each ComplianceStatus
C11_v ==
    CASE QA.opening_score.customer_name_verification = "COMPLIANT" -> One
      [] QA.opening_score.customer_name_verification = "NON_COMPLIANT" -> Zero
      [] QA.opening_score.customer_name_verification = "NOT_APPLICABLE" -> Zero

\* C11: the opening raw_score is (greeting ScoreLevel value + v)/2 with
\* v = 1.0 for COMPLIANT and 0.0 for NON_COMPLIANT and NOT_APPLICABLE, and
\* is always one of 0, 0.25, 0.5, 0.75, 1.
C11_OpeningRawScore ==
    Scored =>
        /\ Sections.opening.raw_score =
               RDiv(RAdd(Float(QA.opening_score.greeting_score), C11_v), R(2, 1))
        /\ Sections.opening.raw_score \in {Zero, R(1, 4), R(1, 2), R(3, 4), One}

\* greeting 0.5 with verification NOT_APPLICABLE scores 0.25
C11_Witness ==
    /\ Scored
    /\ QA.opening_score.greeting_score = "0.5"
    /\ QA.opening_score.customer_name_verification = "NOT_APPLICABLE"
    /\ Sections.opening.raw_score = R(1, 4)

C13_SubScore(count) == IF count >= 5 THEN One ELSE R(count, 5)

\* C13: for PTP or REFUSE_TO_PAY with a NegotiationScore the negotiation
\* raw_score is (effectiveness + solutions + attempts)/3, effectiveness 1.0
\* iff the commitment was obtained, solutions and attempts min(0.2 * count,
\* 1.0): no smaller count gives a larger sub-score, and from 5 upward the
\* sub-score is 1.0.
C13_NegotiationRawScore ==
    (Scored /\ NegotiationApplicable(QA)) =>
        LET neg == Val(QA.negotiation_score)
            comps == Sections.negotiation.components
            effectiveness == Lookup(comps, "effectiveness")
            solutions == Lookup(comps, "solutions")
            attempts == Lookup(comps, "attempts")
        IN /\ effectiveness = (IF neg.payment_commitment_obtained THEN One ELSE Zero)
           /\ solutions = C13_SubScore(Len(neg.solutions_offered))
           /\ attempts = C13_SubScore(neg.negotiation_attempts)
           /\ Sections.negotiation.raw_score =
                  RDiv(RAdd(effectiveness, RAdd(solutions, attempts)), R(3, 1))
           /\ \A m \in 0..Len(neg.solutions_offered) : RLe(Capped(m), solutions)
           /\ \A m \in (-MaxNegativeAttempts)..neg.negotiation_attempts :
                RLe(Capped(m), attempts)
           /\ Len(neg.solutions_offered) >= 5 => solutions = One
           /\ neg.negotiation_attempts >= 5 => attempts = One

\* 6 solutions and 11 attempts without a commitment: both sub-scores are
\* 1.0 and the raw score is 2/3
C13_Witness ==
    /\ Scored
    /\ QA.scenario_type = "REFUSE_TO_PAY"
    /\ QA.negotiation_score # None
    /\ Len(Val(QA.negotiation_score).solutions_offered) = 6
    /\ Val(QA.negotiation_score).negotiation_attempts = 11
    /\ ~Val(QA.negotiation_score).payment_commitment_obtained
    /\ Lookup(Sections.negotiation.components, "solutions") = One
    /\ Lookup(Sections.negotiation.components, "attempts") = One
    /\ Sections.negotiation.raw_score = R(2, 3)

\* C14: when negotiation is not applicable (scenario TPC or UNKNOWN, or no
\* NegotiationScore) the section scorer reports no negotiation raw score,
\* or at least not the 0.0 that an applicable negotiation can score, and
\* the section contributes no weighted zero to the sum of the sections.
C14_NotApplicableIsAbsent ==
    (Scored /\ ~NegotiationApplicable(QA)) =>
        \/ "raw_score" \notin DOMAIN Sections.negotiation
        \/ Sections.negotiation.raw_score # Zero

\* the sum of the three weighted scores
C15_WeightedSum ==
    RAdd(Sections.opening.weighted_score,
         RAdd(Sections.communication.weighted_score,
              Sections.negotiation.weighted_score))

\* C15: each section's weighted_score is raw_score times its fixed weight
\* (opening 0.06, communication 0.25, negotiation 0.40), and when
\* negotiation is applicable the weighted scores sum to total_score.
C15_WeightedScoresSumToTotal ==
    Scored =>
        /\ Sections.opening.weighted_score = RMul(Sections.opening.raw_score, R(6, 100))
        /\ Sections.communication.weighted_score =
               RMul(Sections.communication.raw_score, R(25, 100))
        /\ Sections.negotiation.weighted_score =
               RMul(Sections.negotiation.raw_score, R(40, 100))
        /\ NegotiationApplicable(QA) => Near(C15_WeightedSum, QA.total_score)

\* x lies in [0, top]
InRange(x, top) == RGe(x, Zero) /\ RLe(x, top)

\* C25: for every QAScore the schema accepts, each section raw_score lies
\* in [0,1] and each weighted_score in [0, section weight].
C25_ScoresInRange ==
    Scored =>
        /\ InRange(Sections.opening.raw_score, One)
        /\ InRange(Sections.communication.raw_score, One)
        /\ InRange(Sections.negotiation.raw_score, One)
        /\ InRange(Sections.opening.weighted_score, R(6, 100))
        /\ InRange(Sections.communication.weighted_score, R(25, 100))
        /\ InRange(Sections.negotiation.weighted_score, R(40, 100))

\* C29: with negotiation applicable the three weighted scores sum to at
\* most 0.06 + 0.25 + 0.40 = 0.71, so a total built from them is below the
\* default threshold 0.85 and is no pass for either verdict, even with
\* perfect section scores.
C29_WeightedSumBelowThreshold ==
    (Scored /\ NegotiationApplicable(QA)) =>
        LET built == [QA EXCEPT !.total_score = C15_WeightedSum]
        IN /\ RLe(C15_WeightedSum, R(71, 100))
           /\ ~RGe(C15_WeightedSum, R(85, 100))
           /\ PassingStatus(built, R(85, 100)) = "Needs Improvement"
           /\ DashboardStatus(built) = "FAIL"

\* a PTP call with perfect opening, communication and negotiation: 0.71
C29_Witness ==
    /\ Scored
    /\ QA.scenario_type = "PTP"
    /\ NegotiationApplicable(QA)
    /\ Sections.opening.raw_score = One
    /\ Sections.communication.raw_score = One
    /\ Sections.negotiation.raw_score = One
    /\ C15_WeightedSum = R(71, 100)

----------------------------------------------------------------------------
(* Properties of the store, checked under SpecStore (one session) and      *)
(* SpecSave (two analyses saving at the same time)                         *)

SavedIds == {saved[i].id : i \in 1..Len(saved)}

\* the result of the session's last call
Result == conn["session"].result

\* C16: once save returned an id, get(id) returns a record whose
\* transcript, classification data and QA data equal what was saved, and
\* the same record after any later save, get, list_recent, statistics or
\* export; get of an id that save never returned yields not-found.
C16_AppendOnly ==
    /\ \A i \in 1..Len(saved) :
         LET found == GetAnalysisValue(saved[i].id)
         IN /\ found # None
            /\ Val(found).id = saved[i].id
            /\ Val(found).timestamp = saved[i].timestamp
            /\ Val(found).transcript = saved[i].transcript
            /\ PyEq(Val(found).classification_data, saved[i].classification_data)
            /\ PyEq(Val(found).qa_data, saved[i].qa_data)
    /\ \A analysis_id \in QueryArgs \ SavedIds : GetAnalysisValue(analysis_id) = None
    /\ Result.op = "get" => Result.value = GetAnalysisValue(Result.id)

\* the first analysis is read back unchanged after two later saves
C16_Witness ==
    /\ Len(saved) = 3
    /\ Result.op = "get"
    /\ Result.id = saved[1].id
    /\ Result.value # None
    /\ Val(Result.value).transcript = saved[1].transcript
    /\ PyEq(Val(Result.value).classification_data, saved[1].classification_data)
    /\ Val(Result.value).classification_data # saved[1].classification_data

\* C17: under any interleaving of saves of independent analyses, every
\* save that returns, returns an id no other save has returned, and the id
\* designates the record that save wrote.
C17_UniqueIds ==
    /\ \A i, j \in 1..Len(saved) : i # j => saved[i].id # saved[j].id
    /\ \A i \in 1..Len(saved) :
         LET rows == SelectSeq(analyses, LAMBDA row : row.id = saved[i].id)
         IN /\ Len(rows) = 1
            /\ rows[1].timestamp = saved[i].timestamp
            /\ rows[1].transcript_text = saved[i].transcript
            /\ rows[1].classification_data = JsonDumps(saved[i].classification_data)
            /\ rows[1].qa_data = JsonDumps(saved[i].qa_data)

\* both analyses have saved, the second one to start its INSERT got id 1,
\* and a third save is in its transaction
C17_Witness ==
    /\ Len(saved) = 2
    /\ conn["analysis1"].pc = "issues"
    /\ conn["analysis2"].result.op = "save"
    /\ conn["analysis2"].result.id = 1
    /\ Val(conn["analysis1"].tx).row.id = 3

\* the critical_issues rows of an analyses row, in insertion order
IssuesOf(analysis_id) == SelectSeq(critical_issues, LAMBDA issue : issue.analysis_id = analysis_id)

\* C18: save is atomic per record: the committed tables hold, for each save
\* that returned, its analyses row together with all of its critical-issue
\* rows, and nothing of a save that failed or has not returned; no reader
\* sees an analyses row without its complete set of critical-issue rows.
C18_AtomicSave ==
    /\ Len(analyses) = Len(saved)
    /\ \A i \in 1..Len(analyses) :
         LET expected == Violations(saved[i].qa_data)
             issues == IssuesOf(analyses[i].id)
         IN /\ analyses[i].id = saved[i].id
            /\ Len(issues) = Len(expected)
            /\ \A k \in 1..Len(issues) : issues[k].description = expected[k].v.s
    /\ \A k \in 1..Len(critical_issues) : critical_issues[k].analysis_id \in SavedIds

\* a save with two violations is in its transaction with the first of its
\* critical_issues rows written, the other client's last save has failed,
\* and the committed tables hold one analysis with both of its rows
C18_Witness ==
    /\ Len(analyses) = 1
    /\ Len(critical_issues) = 2
    /\ conn["analysis1"].pc = "issues"
    /\ Len(Val(conn["analysis1"].tx).issues) = 1
    /\ conn["analysis2"].result.op = "raise"

\* C19: list_recent(L) returns exactly min(L, N) records, ordered by
\* timestamp descending, and they are the min(L, N) most recently saved
\* analyses.
C19_ListRecentIsMostRecent ==
    Result.op = "recent" =>
        LET rows == Result.rows
            N == Len(analyses)
            n == Min(Result.limit, N)
        IN /\ Len(rows) = n
           /\ \A i, j \in 1..Len(rows) : i < j => rows[i].timestamp >= rows[j].timestamp
           /\ {rows[i].id : i \in 1..Len(rows)} = {analyses[j].id : j \in (N - n + 1)..N}

RECURSIVE SumCounts(_, _)
SumCounts(f, keys) ==
    IF keys = {} THEN 0
    ELSE LET key == CHOOSE x \in keys : TRUE IN f[key] + SumCounts(f, keys \ {key})

\* the saved records whose total_score is at least 0.85
C20_Passing ==
    {i \in 1..Len(saved) : RGe(DictItem(saved[i].qa_data, "total_score").r, R(85, 100))}

\* C20: after any sequence of saves, statistics() returns a total count
\* equal to the number of saved records, a passing_rate equal to (number of
\* records with qa_score >= 0.85) / total count, 0 for an empty store, and
\* a scenario_distribution whose counts sum to the total count.
C20_Statistics ==
    Result.op = "stats" =>
        LET stats == Result.value
        IN /\ stats.total_analyses = Len(saved)
           /\ stats.passing_rate =
                  (IF Len(saved) = 0 THEN Zero ELSE R(Cardinality(C20_Passing), Len(saved)))
           /\ SumCounts(stats.scenario_distribution, DOMAIN stats.scenario_distribution)
                  = stats.total_analyses

\* two PTP calls at exactly 0.85 and one TPC call at 0.8: rate 2/3
C20_Witness ==
    /\ Result.op = "stats"
    /\ Len(saved) = 3
    /\ Result.value.total_analyses = 3
    /\ Result.value.passing_rate = R(2, 3)
    /\ DOMAIN Result.value.scenario_distribution = {"PTP", "TPC"}
    /\ Result.value.scenario_distribution["PTP"] = 2

\* C27: for every record get returns, the top-level columns agree with the
\* embedded data: scenario_type equals
\* classification_data.basic_info.scenario_type and qa_score equals
\* qa_data.total_score; the row of the same id in list_recent carries the
\* same scenario_type and qa_score.
C27_ColumnsAgreeWithBlobs ==
    /\ \A analysis_id \in QueryArgs :
         LET found == GetAnalysisValue(analysis_id)
         IN found # None =>
              /\ DictHas(Val(found).classification_data, "basic_info")
              /\ Val(found).scenario_type =
                     DictItem(DictItem(Val(found).classification_data, "basic_info"),
                              "scenario_type").s
              /\ Val(found).qa_score = DictItem(Val(found).qa_data, "total_score").r
    /\ Result.op = "recent" =>
         \A i \in 1..Len(Result.rows) :
             LET found == GetAnalysisValue(Result.rows[i].id)
             IN /\ found # None
                /\ Result.rows[i].scenario_type = Val(found).scenario_type
                /\ Result.rows[i].qa_score = Val(found).qa_score

\* list_recent shows a TPC call at 0.8 before a PTP call at 0.85
C27_Witness ==
    /\ Result.op = "recent"
    /\ Len(Result.rows) = 2
    /\ Result.rows[1].scenario_type = "TPC"
    /\ Result.rows[1].qa_score = R(8, 10)
    /\ Result.rows[2].scenario_type = "PTP"
    /\ Val(GetAnalysisValue(Result.rows[2].id)).qa_score = R(85, 100)

\* the other_violations list of a saved qa_data
C30_OtherViolations(qa_data) ==
    DictItem(DictItem(qa_data, "knockout_violations"), "other_violations").items

\* C30: save writes exactly one critical_issues row (type "violation",
\* evidence null) per entry of knockout_violations.other_violations, linked
\* to the id of the analysis saved, and none for the unauthorized_disclosure
\* and ptp_cheating flags: the number of critical_issues rows of an analysis
\* is the length of its other_violations list.
C30_OneIssuePerOtherViolation ==
    /\ \A i \in 1..Len(saved) :
         LET other == C30_OtherViolations(saved[i].qa_data)
             issues == IssuesOf(saved[i].id)
         IN /\ Len(issues) = Len(other)
            /\ \A k \in 1..Len(issues) :
                 /\ issues[k].issue_type = "violation"
                 /\ issues[k].evidence = None
                 /\ issues[k].description = other[k].v.s
    /\ \A k \in 1..Len(critical_issues) : critical_issues[k].analysis_id \in SavedIds
    /\ \A k, l \in 1..Len(critical_issues) :
         k # l => critical_issues[k].id # critical_issues[l].id

\* a call flagged for unauthorized disclosure has no critical_issues row,
\* a call flagged for PTP cheating with two other violations has two
C30_Witness ==
    /\ Len(saved) = 2
    /\ DictItem(DictItem(saved[1].qa_data, "knockout_violations"),
                "unauthorized_disclosure").r = One
    /\ IssuesOf(saved[1].id) = << >>
    /\ DictItem(DictItem(saved[2].qa_data, "knockout_violations"), "ptp_cheating").r = One
    /\ Len(IssuesOf(saved[2].id)) = 2
    /\ Len(critical_issues) = 2

----------------------------------------------------------------------------
(* Properties of the analysis run, checked under SpecRun                   *)

\* the last call of the service a session's run has made
LastInvocation(s) == session[s].invocations[Len(session[s].invocations)]

\* the run of session s ended by a failure of the service
ServiceFailed(s) == session[s].service_error # None

\* C21: after any sequence of analysis runs, some of which fail in
\* classification or in QA scoring, the classification result and the QA
\* score held by a session come from the same run
C21_ResultsFromSameRun ==
    \A s \in DOMAIN session :
        (session[s].classification_results # None /\ session[s].qa_score # None)
            => Val(session[s].classification_results).by = Val(session[s].qa_score).by

\* C22 as stated: when the service fails during analyze_transcript, the
\* error that reaches the caller is the service's error unchanged
C22_ErrorReachesCallerUnchanged ==
    \A s \in DOMAIN session :
        ServiceFailed(s) => session[s].caught = session[s].service_error

\* the message analyze_transcript raises for the failed call of the service
C22_Prefix(s) ==
    IF LastInvocation(s).kind = "classification"
      THEN "Error during call classification: "
      ELSE "Error during QA scoring: "

\* C22: when the service fails during analyze_transcript, the error that
\* reaches the caller is a new generic Exception whose message is the
\* analyzer's prefix followed by the text of the service's error; the kind
\* of the service's error is not kept
C22_ErrorReachesCallerWrapped ==
    \A s \in DOMAIN session :
        ServiceFailed(s) =>
            /\ session[s].caught # None
            /\ Val(session[s].caught).kind = "Exception"
            /\ Val(session[s].caught).kind # Val(session[s].service_error).kind
            /\ Val(session[s].caught).message
                   = C22_Prefix(s) \o Val(session[s].service_error).message

\* for C22: the QA scoring of a run timed out after its classification
\* succeeded, and for another session the classification did not validate
C22_Witness ==
    /\ \E s \in DOMAIN session :
          /\ ServiceFailed(s)
          /\ Len(session[s].invocations) = 2
          /\ Val(session[s].service_error).kind = "APITimeoutError"
          /\ Val(session[s].caught).message = "Error during QA scoring: Request timed out."
    /\ \E s \in DOMAIN session :
          /\ ServiceFailed(s)
          /\ Len(session[s].invocations) = 1
          /\ Val(session[s].service_error).kind = "OutputParserException"

\* the calls of the service of one kind in the run of session s
C23_Calls(s, kind) ==
    {i \in 1..Len(session[s].invocations) : session[s].invocations[i].kind = kind}

\* C23: each call of analyze_transcript invokes the service at most once, a
\* run invokes it at most twice (for the classification, then for the QA
\* scoring), and after a failed invocation the run makes no further one
C23_NoRetry ==
    \A s \in DOMAIN session :
        /\ Cardinality(C23_Calls(s, "classification")) <= 1
        /\ Cardinality(C23_Calls(s, "qa")) <= 1
        /\ Len(session[s].invocations) <= 2
        /\ \A i \in 1..Len(session[s].invocations) :
              /\ (i = 1) = (session[s].invocations[i].kind = "classification")
              /\ ~session[s].invocations[i].ok => i = Len(session[s].invocations)
        /\ ServiceFailed(s) => session[s].pc = "idle"

\* for C23: a run ended by a failed QA scoring call, and the run of another
\* session ended by a failed classification call
C23_Witness ==
    /\ \E s \in DOMAIN session :
          /\ session[s].pc = "idle"
          /\ Len(session[s].invocations) = 2
          /\ ~session[s].invocations[2].ok
    /\ \E s \in DOMAIN session :
          /\ session[s].pc = "idle"
          /\ session[s].run = 1
          /\ session[s].invocations = << Invocation("classification", None, FALSE) >>

\* C24: under every interleaving of two sessions' analyses, the analysis
\* results a session reads back for download are the ones it produced
C24_DownloadIsOwn ==
    \A s \in DOMAIN session :
        session[s].download # None => Val(session[s].download).by[1] = s

\* both extractions of the run session s is in have succeeded
C28_BothSucceeded(s) ==
    /\ ~ServiceFailed(s)
    /\ session[s].classification_results # None
    /\ Val(session[s].classification_results).by = ThisRun(s)
    /\ session[s].invocations = << Invocation("classification", None, TRUE),
                                   Invocation("qa", Some(ScoringScenario(s)), TRUE) >>
    /\ session[s].qa_score # None
    /\ Val(session[s].qa_score).by = ThisRun(s)

\* C28: the latest-analysis file and the store change only in a step of a
\* run whose two extractions have succeeded, so a run in which one fails
\* leaves both as they were; and the QA extraction of a run starts after
\* its classification has returned, with the scenario that classification
\* produced
C28_PersistOnlyAfterBothExtractions ==
    [][/\ latest_analysis_file' # latest_analysis_file =>
             \E s \in DOMAIN session :
                 /\ C28_BothSucceeded(s)
                 /\ session[s].pc = "scored"
                 /\ Val(latest_analysis_file').by = ThisRun(s)
       /\ (analyses' # analyses \/ critical_issues' # critical_issues) =>
             \E s \in DOMAIN session :
                 /\ C28_BothSucceeded(s)
                 /\ session[s].pc = "filed"
                 /\ session'[s].pc = "saved"
                 /\ analyses'[Len(analyses')].transcript_text = CleanedTranscript(s)
       /\ \A s \in DOMAIN session :
             Len(session'[s].invocations) > 1 /\ session'[s].invocations # session[s].invocations =>
                 /\ session[s].pc = "classified"
                 /\ session[s].invocations = << Invocation("classification", None, TRUE) >>
                 /\ Val(session[s].classification_results).by = ThisRun(s)
                 /\ session'[s].run = session[s].run
                 /\ Len(session'[s].invocations) = 2
                 /\ session'[s].invocations[2].kind = "qa"
                 /\ session'[s].invocations[2].scenario_type
                        = Some(Val(session[s].classification_results).scenario_type)
      ]_vars

\* for C28: the second run of a session failed in QA scoring after a TPC
\* classification, and the file and the store hold what its first run, a
\* PTP call, saved
C28_Witness ==
    \E s \in DOMAIN session :
        /\ session[s].run = 2
        /\ session[s].pc = "idle"
        /\ ServiceFailed(s)
        /\ Len(session[s].invocations) = 2
        /\ session[s].invocations[2].scenario_type = Some("TPC")
        /\ latest_analysis_file # None
        /\ Val(latest_analysis_file).by = <<s, 1>>
        /\ Len(analyses) = 1
        /\ analyses[1].scenario_type = "PTP"
        /\ session[s].current_analysis_id = Some(1)

====
